---- MODULE Spec2Model ----
(***************************************************************************)
(* Model of MatLab/project/sendver.py: the CameraApp window, its timer     *)
(* tick (update_frame), the per-face filter dispatch (apply_face_filter)   *)
(* and the user event handlers.  The four compositor functions come from   *)
(* the module `filters`, which is imported by sendver.py but is not part   *)
(* of the sources at hand; they are modelled from the specification text.  *)
(***************************************************************************)
EXTENDS Integers, Sequences, FiniteSets, TLC

(* ---------------- bounds of the model ---------------- *)
FrameW == 3
FrameH == 3
MaxFaces == 2
MaxZoom == 1

(* ---------------- frames and colours ---------------- *)
\* Python's None for a name, and for an image (no picture / attribute not set / empty scene)
None == "None"
NoImage == <<>>

Pixels == (1..FrameH) \X (1..FrameW)

\* the images the camera can deliver (BGR, one colour triple per pixel)
CamScenes == {0}
CameraFrames ==
  {[p \in Pixels |-> <<16 * p[1] + p[2] + s, 100 + s, 200 - 16 * p[1] - p[2]>>] : s \in CamScenes}

\* cv2.flip(frame, 1): mirror around the vertical axis
flip(frame) == [p \in Pixels |-> frame[<<p[1], FrameW + 1 - p[2]>>]]

\* cv2.cvtColor(frame, cv2.COLOR_BGR2RGB): swap the first and third channel
cvtColor(frame) == [p \in Pixels |-> <<frame[p][3], frame[p][2], frame[p][1]>>]

(* ---------------- landmarks ---------------- *)
\* A landmark set gives one point <<row, col>> per anatomical role.
Face(r, c) ==
  [eyeL |-> <<r, c>>, eyeR |-> <<r, c + 1>>,
   cheekL |-> <<r + 1, c>>, cheekR |-> <<r + 1, c + 1>>,
   top |-> <<r, c>>, chin |-> <<r + 1, c>>]

\* the landmark sets the detector can return for one face
FaceSet == {Face(2, 1), Face(2, 2)}

RECURSIVE SeqsUpTo(_, _)
SeqsUpTo(S, n) ==
  IF n = 0 THEN {<<>>}
  ELSE LET shorter == SeqsUpTo(S, n - 1)
       IN shorter \cup
          UNION {{Append(q, x) : x \in S \ {q[k] : k \in 1..Len(q)}} :
                   q \in {t \in shorter : Len(t) = n - 1}}

\* results.multi_face_landmarks: an ordered, possibly empty list of distinct faces
FaceSeqs == SeqsUpTo(FaceSet, MaxFaces)

LandmarkPoints(lm) == {lm.eyeL, lm.eyeR, lm.cheekL, lm.cheekR, lm.top, lm.chin}

Min(S) == CHOOSE x \in S : \A y \in S : x <= y
Max(S) == CHOOSE x \in S : \A y \in S : x >= y
SqrtFloor(k) == CHOOSE n \in 0..k : n * n <= k /\ (n + 1) * (n + 1) > k

FaceWidth(lm) == lm.cheekR[2] - lm.cheekL[2] + 1
FaceHeight(lm) == lm.chin[1] - lm.top[1] + 1

(* ---------------- compositor functions (module filters) ---------------- *)
\* variant: the source is added on top of the destination without the (1-alpha) weight
AlphaBlend_additive(src, dst, alpha) == (src * alpha) \div 255 + dst

\* out = src*alpha + dst*(1-alpha) on one channel, alpha in 0..255, truncated
AlphaBlend(src, dst, alpha) == (src * alpha + dst * (255 - alpha)) \div 255

BlendPixel(src, dst, alpha) ==
  <<AlphaBlend(src[1], dst[1], alpha), AlphaBlend(src[2], dst[2], alpha),
    AlphaBlend(src[3], dst[3], alpha)>>

AssetW == 4
BlushAlpha == 102
BlushTint == <<120, 120, 255>>
SunglassesMultiplier == 2

\* native asset images: column j in 0..AssetW-1 gives a colour and an alpha
SunglassesImage == [j \in 0..(AssetW - 1) |-> [color |-> <<10 + j, 10 + j, 10 + j>>, alpha |-> 255]]
RabbitEarsImage == [j \in 0..(AssetW - 1) |-> [color |-> <<240 + j, 240 + j, 250>>, alpha |-> 255]]

\* the asset resized to width w, column k of the result
ResizedAsset(image, w, k) == image[(k * AssetW) \div w]

\* alpha-composite an asset of width w on row `row` from column x1, clipped to the frame
OverlayRegion(row, x1, w) == {p \in Pixels : p[1] = row /\ p[2] >= x1 /\ p[2] <= x1 + w - 1}
OverlayAsset(frame, image, row, x1, w) ==
  LET region == OverlayRegion(row, x1, w)
  IN [p \in Pixels |->
        IF p \in region
        THEN LET a == ResizedAsset(image, w, p[2] - x1)
             IN BlendPixel(a.color, frame[p], a.alpha)
        ELSE frame[p]]

\* Blush: a region around each cheek landmark, radius proportional to the face width
BlushRadius(lm) == FaceWidth(lm) \div 4
BlushRegion(lm) ==
  {p \in Pixels : \E ch \in {lm.cheekL, lm.cheekR} :
     (p[1] - ch[1]) * (p[1] - ch[1]) + (p[2] - ch[2]) * (p[2] - ch[2])
       <= BlushRadius(lm) * BlushRadius(lm)}
add_blush(frame, lm) ==
  LET region == BlushRegion(lm)
  IN [p \in Pixels |-> IF p \in region
                       THEN BlendPixel(BlushTint, frame[p], BlushAlpha) ELSE frame[p]]

\* variant: the glasses are centred on the left eye corner
SunglassesCenter_left_eye(lm) == lm.eyeL

\* Sunglasses: centre = midpoint of the eye corners, width = distance * multiplier
SunglassesCenter(lm) == <<(lm.eyeL[1] + lm.eyeR[1]) \div 2, (lm.eyeL[2] + lm.eyeR[2]) \div 2>>
EyeDistance(lm) ==
  SqrtFloor((lm.eyeR[1] - lm.eyeL[1]) * (lm.eyeR[1] - lm.eyeL[1])
            + (lm.eyeR[2] - lm.eyeL[2]) * (lm.eyeR[2] - lm.eyeL[2]))
SunglassesWidth(lm) == EyeDistance(lm) * SunglassesMultiplier
SunglassesLeft(lm) == SunglassesCenter(lm)[2] - (SunglassesWidth(lm) - 1) \div 2
\* rotation: the angle of the line from eyeL to eyeR, kept as its direction
\* <<rows, cols>> in lowest terms (<<0, 1>> is a level line, angle 0)
Abs(n) == IF n < 0 THEN -n ELSE n
RECURSIVE GCD(_, _)
GCD(a, b) == IF b = 0 THEN a ELSE GCD(b, a % b)
SunglassesAngle(lm) ==
  LET dr == lm.eyeR[1] - lm.eyeL[1]
      dc == lm.eyeR[2] - lm.eyeL[2]
      g == GCD(Abs(dr), Abs(dc))
  IN <<dr \div g, dc \div g>>

SunglassesRegion(lm) ==
  OverlayRegion(SunglassesCenter(lm)[1], SunglassesLeft(lm), SunglassesWidth(lm))
overlay_sunglasses(frame, lm) ==
  OverlayAsset(frame, SunglassesImage, SunglassesCenter(lm)[1],
               SunglassesLeft(lm), SunglassesWidth(lm))

\* Rabbit ears: anchored above the head by an offset derived from the face height
RabbitEarsRow(lm) == lm.top[1] - FaceHeight(lm) \div 2
RabbitEarsRegion(lm) == OverlayRegion(RabbitEarsRow(lm), lm.cheekL[2], FaceWidth(lm))
overlay_rabbit_ears(frame, lm) ==
  OverlayAsset(frame, RabbitEarsImage, RabbitEarsRow(lm), lm.cheekL[2], FaceWidth(lm))

\* Background: foreground mask = hull (bounding box) of the landmarks
Mask(lm) ==
  LET rows == {q[1] : q \in LandmarkPoints(lm)}
      cols == {q[2] : q \in LandmarkPoints(lm)}
  IN {p \in Pixels : /\ p[1] >= Min(rows) /\ p[1] <= Max(rows)
                     /\ p[2] >= Min(cols) /\ p[2] <= Max(cols)}

\* the background picture as stored in the file (native size BgH x BgW, BGR)
BgH == 4
BgW == 4
BackgroundFile(path) ==
  [q \in (1..BgH) \X (1..BgW) |->
     IF path = "space.jpg" THEN <<60 + q[1], 70 + q[2], 80>> ELSE <<90 + q[1], 95 + q[2], 99>>]

\* cv2.imread(path): the picture, or None when the file cannot be read
imread(path, readable) == IF readable THEN BackgroundFile(path) ELSE NoImage

\* the background picture resized to the frame dimensions (nearest neighbour)
ResizedBackground(bg_image) ==
  [p \in Pixels |-> bg_image[<<((p[1] - 1) * BgH) \div FrameH + 1,
                               ((p[2] - 1) * BgW) \div FrameW + 1>>]]

apply_background_change(frame, lm, bg_image) ==
  IF bg_image = NoImage THEN frame
  ELSE LET mask == Mask(lm)
            background == ResizedBackground(bg_image)
       IN [p \in Pixels |-> IF p \in mask THEN frame[p] ELSE background[p]]

(* ---------------- filter state ---------------- *)
Filters == {"Blush", "Sunglasses", "RabbitEars", "Background"}
ToggleButtons == {"Blush", "Sunglasses", "RabbitEars"}

background_images == [k \in {1, 2} |-> IF k = 1 THEN "space.jpg" ELSE "background.jpg"]

\* running: the handler the event loop is in the middle of (Idle between handlers)
\* probe: the arguments and result of a compositor computation looked at on its own
VARIABLES filter_states, current_background, checked, timer_active,
          zoom_factor, drag_start, current_frame, scene, trace, running, probe

vars == <<filter_states, current_background, checked, timer_active,
          zoom_factor, drag_start, current_frame, scene, trace, running, probe>>

Idle == [pc |-> "idle"]
NoProbe == [fn |-> "none"]

\* what the last handler did; a handler that is not a tick and writes no file leaves NoTick
NoTick == [ret |-> "none", cam |-> NoImage, faces |-> <<>>, readable |-> TRUE,
           process_calls |-> 0, calls |-> <<>>, imreads |-> 0, written |-> NoImage]

\* the window right after construction
InitApp ==
  /\ filter_states = [f \in Filters |-> FALSE]
  /\ current_background = None
  /\ checked = [f \in Filters |-> FALSE]
  /\ timer_active = FALSE
  /\ zoom_factor = <<0, 0>>
  /\ drag_start = None
  /\ current_frame = NoImage
  /\ scene = NoImage
  /\ trace = NoTick
  /\ running = Idle

Init == InitApp /\ probe = NoProbe

(* ---------------- per-face dispatch ---------------- *)
\* one iteration of the loop over results.multi_face_landmarks; st carries the
\* frame and the record of the calls made so far, i is the index of the face
Call(st, name, i, frame) == [st EXCEPT !.frame = frame, !.calls = Append(@, <<name, i>>)]

\* variant: the sunglasses are drawn whether or not their flag is set
process_face_unguarded(st, lm, i, fs, cb, readable) ==
  LET s1 == IF fs["Blush"] THEN Call(st, "add_blush", i, add_blush(st.frame, lm)) ELSE st
      s2 == Call(s1, "overlay_sunglasses", i, overlay_sunglasses(s1.frame, lm))
      s3 == IF fs["RabbitEars"]
            THEN Call(s2, "overlay_rabbit_ears", i, overlay_rabbit_ears(s2.frame, lm)) ELSE s2
      s4 == IF fs["Background"] /\ cb # None
            THEN LET bg_image == imread(cb, readable)
                 IN [Call(s3, "apply_background_change", i,
                          apply_background_change(s3.frame, lm, bg_image))
                       EXCEPT !.imreads = @ + 1]
            ELSE s3
  IN s4

\* variant: a failed load of the background picture abandons the face's step
process_face_abort(st, lm, i, fs, cb, readable) ==
  LET s1 == IF fs["Blush"] THEN Call(st, "add_blush", i, add_blush(st.frame, lm)) ELSE st
      s2 == IF fs["Sunglasses"]
            THEN Call(s1, "overlay_sunglasses", i, overlay_sunglasses(s1.frame, lm)) ELSE s1
      s3 == IF fs["RabbitEars"]
            THEN Call(s2, "overlay_rabbit_ears", i, overlay_rabbit_ears(s2.frame, lm)) ELSE s2
      s4 == IF fs["Background"] /\ cb # None
            THEN LET bg_image == imread(cb, readable)
                 IN IF bg_image = NoImage THEN [st EXCEPT !.imreads = @ + 1]
                    ELSE [Call(s3, "apply_background_change", i,
                               apply_background_change(s3.frame, lm, bg_image))
                            EXCEPT !.imreads = @ + 1]
            ELSE s3
  IN s4

process_face(st, lm, i, fs, cb, readable) ==
  LET s1 == IF fs["Blush"] THEN Call(st, "add_blush", i, add_blush(st.frame, lm)) ELSE st
      s2 == IF fs["Sunglasses"]
            THEN Call(s1, "overlay_sunglasses", i, overlay_sunglasses(s1.frame, lm)) ELSE s1
      s3 == IF fs["RabbitEars"]
            THEN Call(s2, "overlay_rabbit_ears", i, overlay_rabbit_ears(s2.frame, lm)) ELSE s2
      s4 == IF fs["Background"] /\ cb # None
            THEN LET bg_image == imread(cb, readable)
                 IN [Call(s3, "apply_background_change", i,
                          apply_background_change(s3.frame, lm, bg_image))
                       EXCEPT !.imreads = @ + 1]
            ELSE s3
  IN s4

\* variant: the faces are taken from the last to the first
RECURSIVE face_loop_reversed(_, _, _, _, _, _)
face_loop_reversed(st, faces, i, fs, cb, readable) ==
  IF i > Len(faces) THEN st
  ELSE face_loop_reversed(process_face(st, faces[Len(faces) + 1 - i], Len(faces) + 1 - i,
                                       fs, cb, readable),
                          faces, i + 1, fs, cb, readable)

RECURSIVE face_loop(_, _, _, _, _, _)
face_loop(st, faces, i, fs, cb, readable) ==
  IF i > Len(faces) THEN st
  ELSE face_loop(process_face(st, faces[i], i, fs, cb, readable), faces, i + 1, fs, cb, readable)

\* variant: with no face detected the blush is still drawn, on a default face
apply_face_filter_default_face(frame, faces, fs, cb, readable) ==
  LET st0 == [frame |-> frame, calls |-> <<>>, imreads |-> 0, process_calls |-> 1]
  IN IF faces # <<>> THEN face_loop(st0, faces, 1, fs, cb, readable)
     ELSE IF fs["Blush"] THEN [st0 EXCEPT !.frame = add_blush(frame, Face(2, 1))] ELSE st0

\* apply_face_filter(frame): faces is what face_mesh.process returns for the frame
apply_face_filter(frame, faces, fs, cb, readable) ==
  LET st0 == [frame |-> frame, calls |-> <<>>, imreads |-> 0, process_calls |-> 1]
  IN IF faces # <<>> THEN face_loop(st0, faces, 1, fs, cb, readable) ELSE st0

\* variant: the gate lets every frame through to the detector
any_always(fs) == TRUE

any(fs) == \E f \in Filters : fs[f]

(* ---------------- handlers ---------------- *)
start_camera ==
  /\ timer_active' = TRUE
  /\ trace' = NoTick
  /\ UNCHANGED <<running, probe, filter_states, current_background, checked, zoom_factor,
                 drag_start, current_frame, scene>>

\* variant: stopping the camera also switches the filters off
stop_camera_resets ==
  /\ timer_active' = FALSE
  /\ filter_states' = [f \in Filters |-> FALSE]
  /\ trace' = NoTick
  /\ UNCHANGED <<running, probe, current_background, checked, zoom_factor,
                 drag_start, current_frame, scene>>

stop_camera ==
  /\ timer_active' = FALSE
  /\ trace' = NoTick
  /\ UNCHANGED <<running, probe, filter_states, current_background, checked, zoom_factor,
                 drag_start, current_frame, scene>>

\* zoom_factor is the pair <<number of *1.1 steps, number of *0.9 steps>>
zoom_in ==
  /\ zoom_factor[1] + zoom_factor[2] < MaxZoom
  /\ zoom_factor' = <<zoom_factor[1] + 1, zoom_factor[2]>>
  /\ trace' = NoTick
  /\ UNCHANGED <<running, probe, filter_states, current_background, checked, timer_active,
                 drag_start, current_frame, scene>>

zoom_out ==
  /\ zoom_factor[1] + zoom_factor[2] < MaxZoom
  /\ zoom_factor' = <<zoom_factor[1], zoom_factor[2] + 1>>
  /\ trace' = NoTick
  /\ UNCHANGED <<running, probe, filter_states, current_background, checked, timer_active,
                 drag_start, current_frame, scene>>

wheelEvent == \E dy \in {-120, 120} : IF dy > 0 THEN zoom_in ELSE zoom_out

\* variant: the handler switches the filter on instead of negating the flag
toggle_filter_sets(filter_name) ==
  /\ checked' = [checked EXCEPT ![filter_name] = ~@]
  /\ filter_states' = [filter_states EXCEPT ![filter_name] = TRUE]
  /\ trace' = NoTick
  /\ UNCHANGED <<running, probe, current_background, timer_active, zoom_factor, drag_start,
                 current_frame, scene>>

\* a click on a checkable filter button flips it and emits toggled
toggle_filter(filter_name) ==
  /\ checked' = [checked EXCEPT ![filter_name] = ~@]
  /\ filter_states' = [filter_states EXCEPT ![filter_name] = ~@]
  /\ trace' = NoTick
  /\ UNCHANGED <<running, probe, current_background, timer_active, zoom_factor, drag_start,
                 current_frame, scene>>

\* variant: unchecking clears the flag but keeps the selected picture
toggle_background_keeps_selection ==
  /\ checked' = [checked EXCEPT !["Background"] = ~@]
  /\ IF checked'["Background"]
     THEN /\ current_background' = background_images[1]
          /\ filter_states' = [filter_states EXCEPT !["Background"] = TRUE]
     ELSE /\ current_background' = current_background
          /\ filter_states' = [filter_states EXCEPT !["Background"] = FALSE]
  /\ trace' = NoTick
  /\ UNCHANGED <<running, probe, timer_active, zoom_factor, drag_start, current_frame, scene>>

toggle_background ==
  /\ checked' = [checked EXCEPT !["Background"] = ~@]
  /\ IF checked'["Background"]
     THEN /\ current_background' = background_images[1]
          /\ filter_states' = [filter_states EXCEPT !["Background"] = TRUE]
     ELSE /\ current_background' = None
          /\ filter_states' = [filter_states EXCEPT !["Background"] = FALSE]
  /\ trace' = NoTick
  /\ UNCHANGED <<running, probe, timer_active, zoom_factor, drag_start, current_frame, scene>>

\* variant: the frame is stored before the overlays are applied
update_frame_ok_stores_raw ==
  /\ timer_active
  /\ \E cam \in CameraFrames :
     \E faces \in (IF any(filter_states) THEN FaceSeqs ELSE {<<>>}) :
     \E readable \in (IF filter_states["Background"] /\ current_background # None
                         /\ faces # <<>> THEN BOOLEAN ELSE {TRUE}) :
       LET flipped == flip(cam)
           r == IF any(filter_states)
                THEN apply_face_filter(flipped, faces, filter_states, current_background, readable)
                ELSE [frame |-> flipped, calls |-> <<>>, imreads |-> 0, process_calls |-> 0]
           rgb_image == cvtColor(r.frame)
       IN /\ scene' = rgb_image
          /\ current_frame' = flipped
          /\ trace' = [ret |-> "ok", cam |-> cam, faces |-> faces, readable |-> readable,
                       process_calls |-> r.process_calls, calls |-> r.calls,
                       imreads |-> r.imreads, written |-> NoImage]
  /\ UNCHANGED <<running, probe, filter_states, current_background, checked, timer_active,
                 zoom_factor, drag_start>>

\* variant: the timer keeps firing after it has been stopped
update_frame_ok_unguarded ==
  /\ \E cam \in CameraFrames :
     \E faces \in (IF any(filter_states) THEN FaceSeqs ELSE {<<>>}) :
     \E readable \in (IF filter_states["Background"] /\ current_background # None
                         /\ faces # <<>> THEN BOOLEAN ELSE {TRUE}) :
       LET flipped == flip(cam)
           r == IF any(filter_states)
                THEN apply_face_filter(flipped, faces, filter_states, current_background, readable)
                ELSE [frame |-> flipped, calls |-> <<>>, imreads |-> 0, process_calls |-> 0]
           rgb_image == cvtColor(r.frame)
       IN /\ scene' = rgb_image
          /\ current_frame' = r.frame
          /\ trace' = [ret |-> "ok", cam |-> cam, faces |-> faces, readable |-> readable,
                       process_calls |-> r.process_calls, calls |-> r.calls,
                       imreads |-> r.imreads, written |-> NoImage]
  /\ UNCHANGED <<running, probe, filter_states, current_background, checked, timer_active,
                 zoom_factor, drag_start>>

\* one timer tick whose camera read succeeds
update_frame_ok ==
  /\ timer_active
  /\ \E cam \in CameraFrames :
     \E faces \in (IF any(filter_states) THEN FaceSeqs ELSE {<<>>}) :
     \E readable \in (IF filter_states["Background"] /\ current_background # None
                         /\ faces # <<>> THEN BOOLEAN ELSE {TRUE}) :
       LET flipped == flip(cam)
           r == IF any(filter_states)
                THEN apply_face_filter(flipped, faces, filter_states, current_background, readable)
                ELSE [frame |-> flipped, calls |-> <<>>, imreads |-> 0, process_calls |-> 0]
           rgb_image == cvtColor(r.frame)
       IN /\ scene' = rgb_image
          /\ current_frame' = r.frame
          /\ trace' = [ret |-> "ok", cam |-> cam, faces |-> faces, readable |-> readable,
                       process_calls |-> r.process_calls, calls |-> r.calls,
                       imreads |-> r.imreads, written |-> NoImage]
  /\ UNCHANGED <<running, probe, filter_states, current_background, checked, timer_active,
                 zoom_factor, drag_start>>

\* variant: a failed read also drops the stored frame
update_frame_failed_drops ==
  /\ timer_active
  /\ scene' = NoImage
  /\ current_frame' = NoImage
  /\ trace' = [NoTick EXCEPT !.ret = "failed"]
  /\ UNCHANGED <<running, probe, filter_states, current_background, checked, timer_active,
                 zoom_factor, drag_start>>

\* one timer tick whose camera read fails
update_frame_failed ==
  /\ timer_active
  /\ scene' = NoImage
  /\ trace' = [NoTick EXCEPT !.ret = "failed"]
  /\ UNCHANGED <<running, probe, filter_states, current_background, checked, timer_active,
                 zoom_factor, drag_start, current_frame>>

update_frame == update_frame_ok \/ update_frame_failed

capture_image ==
  /\ trace' = IF current_frame # NoImage THEN [NoTick EXCEPT !.written = current_frame]
              ELSE NoTick
  /\ UNCHANGED <<running, probe, filter_states, current_background, checked, timer_active,
                 zoom_factor, drag_start, current_frame, scene>>

MousePos == {<<1, 1>>}
MouseButtons == {"LeftButton", "RightButton"}

mousePressEvent ==
  \E button \in MouseButtons, pos \in MousePos :
    /\ drag_start' = IF button = "LeftButton" THEN pos ELSE drag_start
    /\ trace' = NoTick
    /\ UNCHANGED <<running, probe, filter_states, current_background, checked, timer_active,
                   zoom_factor, current_frame, scene>>

mouseMoveEvent ==
  \E pos \in MousePos :
    /\ drag_start' = IF drag_start # None THEN pos ELSE drag_start
    /\ trace' = NoTick
    /\ UNCHANGED <<running, probe, filter_states, current_background, checked, timer_active,
                   zoom_factor, current_frame, scene>>

mouseReleaseEvent ==
  /\ drag_start' = None
  /\ trace' = NoTick
  /\ UNCHANGED <<running, probe, filter_states, current_background, checked, timer_active,
                 zoom_factor, current_frame, scene>>

Next ==
  \/ start_camera
  \/ stop_camera
  \/ zoom_in
  \/ zoom_out
  \/ wheelEvent
  \/ \E f \in ToggleButtons : toggle_filter(f)
  \/ toggle_background
  \/ update_frame
  \/ capture_image
  \/ mousePressEvent
  \/ mouseMoveEvent
  \/ mouseReleaseEvent

Spec == Init /\ [][Next]_vars

(* ---------------- a tick taken statement by statement ---------------- *)
\* variant: a handler can be entered while another one is still running
EventLoopIdle_reentrant == TRUE

\* the event loop hands out the next event only when the previous handler has returned
EventLoopIdle == running.pc = "idle"

\* timeout: update_frame is entered, the camera is read and the frame mirrored
tick_begin ==
  /\ EventLoopIdle /\ timer_active
  /\ \E cam \in CameraFrames : running' = [pc |-> "gate", cam |-> cam, frame |-> flip(cam)]
  /\ UNCHANGED <<probe, filter_states, current_background, checked, timer_active,
                 zoom_factor, drag_start, current_frame, scene, trace>>

\* timeout with a failed read: the whole handler is the else branch
tick_failed == EventLoopIdle /\ update_frame_failed

\* the any(...) gate; behind it the colour conversion and the detector
tick_gate ==
  /\ running.pc = "gate"
  /\ \E faces \in (IF any(filter_states) THEN FaceSeqs ELSE {<<>>}) :
     \E readable \in (IF filter_states["Background"] /\ current_background # None
                         /\ faces # <<>> THEN BOOLEAN ELSE {TRUE}) :
       running' = [pc |-> "faces", cam |-> running.cam, frame |-> running.frame,
                   gate_flags |-> filter_states, gate_background |-> current_background,
                   faces |-> faces, readable |-> readable, i |-> 1, calls |-> <<>>,
                   imreads |-> 0,
                   process_calls |-> IF any(filter_states) THEN 1 ELSE 0]
  /\ UNCHANGED <<probe, filter_states, current_background, checked, timer_active,
                 zoom_factor, drag_start, current_frame, scene, trace>>

\* one iteration of the loop over the faces, reading the flags as they are now
tick_face ==
  /\ running.pc = "faces" /\ running.i <= Len(running.faces)
  /\ LET st == process_face([frame |-> running.frame, calls |-> running.calls,
                             imreads |-> running.imreads], running.faces[running.i],
                            running.i, filter_states, current_background, running.readable)
     IN running' = [running EXCEPT !.frame = st.frame, !.calls = st.calls,
                                   !.imreads = st.imreads, !.i = @ + 1]
  /\ UNCHANGED <<probe, filter_states, current_background, checked, timer_active,
                 zoom_factor, drag_start, current_frame, scene, trace>>

\* the frame is converted, displayed and stored; the handler returns
tick_show ==
  /\ running.pc = "faces" /\ running.i > Len(running.faces)
  /\ scene' = cvtColor(running.frame)
  /\ current_frame' = running.frame
  /\ trace' = [ret |-> "ok", cam |-> running.cam, faces |-> running.faces,
               readable |-> running.readable, process_calls |-> running.process_calls,
               calls |-> running.calls, imreads |-> running.imreads, written |-> NoImage]
  /\ running' = Idle
  /\ UNCHANGED <<probe, filter_states, current_background, checked, timer_active,
                 zoom_factor, drag_start>>

NextSteps ==
  \/ EventLoopIdle /\ start_camera
  \/ \E f \in ToggleButtons : EventLoopIdle /\ toggle_filter(f)
  \/ EventLoopIdle /\ toggle_background
  \/ tick_begin
  \/ tick_failed
  \/ tick_gate
  \/ tick_face
  \/ tick_show

SpecSteps == Init /\ [][NextSteps]_vars

(* ---------------- alpha blending on its own ---------------- *)
\* channel values and alpha weights (alpha/255) the blend is tried on
ChannelSamples == {0, 1, 127, 128, 254, 255}
AlphaSamples == {0, 1, 102, 128, 254, 255}

InitBlend ==
  /\ InitApp
  /\ probe \in [fn : {"blend"}, src : ChannelSamples, dst : ChannelSamples,
                alpha : AlphaSamples, out : {0}, done : {FALSE}]

\* one overlay application on one channel of one pixel
blend_apply ==
  /\ probe.fn = "blend" /\ ~probe.done
  /\ probe' = [probe EXCEPT !.out = AlphaBlend(probe.src, probe.dst, probe.alpha),
                            !.done = TRUE]
  /\ UNCHANGED <<filter_states, current_background, checked, timer_active, zoom_factor,
                 drag_start, current_frame, scene, trace, running>>

\* the next overlay is applied to the result of the previous one
blend_next ==
  /\ probe.fn = "blend" /\ probe.done
  /\ \E src \in ChannelSamples, alpha \in AlphaSamples :
       probe' = [fn |-> "blend", src |-> src, dst |-> probe.out, alpha |-> alpha,
                 out |-> 0, done |-> FALSE]
  /\ UNCHANGED <<filter_states, current_background, checked, timer_active, zoom_factor,
                 drag_start, current_frame, scene, trace, running>>

NextBlend == blend_apply \/ blend_next

SpecBlend == InitBlend /\ [][NextBlend]_vars

(* ---------------- sunglasses placement on its own ---------------- *)
\* eye-corner points <<row, col>> the placement is tried on
EyeRows == {96, 100, 110}
EyeCols == {100, 120, 140, 147}
EyePoints == EyeRows \X EyeCols

InitSunglasses ==
  /\ InitApp
  /\ \E l \in EyePoints : \E r \in EyePoints \ {l} :
       probe = [fn |-> "sunglasses", lm |-> [eyeL |-> l, eyeR |-> r],
                out |-> [center |-> <<0, 0>>, width |-> 0, angle |-> <<0, 0>>, left |-> 0],
                done |-> FALSE]

\* the placement overlay_sunglasses computes for a landmark set
sunglasses_place ==
  /\ probe.fn = "sunglasses" /\ ~probe.done
  /\ probe' = [probe EXCEPT
        !.out = [center |-> SunglassesCenter(probe.lm), width |-> SunglassesWidth(probe.lm),
                 angle |-> SunglassesAngle(probe.lm), left |-> SunglassesLeft(probe.lm)],
        !.done = TRUE]
  /\ UNCHANGED <<filter_states, current_background, checked, timer_active, zoom_factor,
                 drag_start, current_frame, scene, trace, running>>

NextSunglasses == sunglasses_place

SpecSunglasses == InitSunglasses /\ [][NextSunglasses]_vars

(* ---------------- the window as the user can operate it ---------------- *)
\* the buttons initUI creates, and the handler each one's signal is connected to
ConnectedHandler ==
  [zoom_in_btn |-> "zoom_in", zoom_out_btn |-> "zoom_out",
   start_btn |-> "start_camera", stop_btn |-> "stop_camera",
   capture_btn |-> "capture_image",
   toggle_blush_btn |-> "toggle_filter", toggle_sunglasses_btn |-> "toggle_filter",
   toggle_rabbit_ears_btn |-> "toggle_filter", toggle_background_btn |-> "toggle_background"]
Controls == DOMAIN ConnectedHandler

\* the buttons that are added to a layout of the central widget
PlacedControls ==
  {"toggle_blush_btn", "toggle_sunglasses_btn", "toggle_rabbit_ears_btn",
   "toggle_background_btn", "capture_btn", "zoom_in_btn", "zoom_out_btn", "start_btn"}

ButtonOf(f) ==
  CASE f = "Blush" -> "toggle_blush_btn"
    [] f = "Sunglasses" -> "toggle_sunglasses_btn"
    [] f = "RabbitEars" -> "toggle_rabbit_ears_btn"
    [] f = "Background" -> "toggle_background_btn"

\* events a user of the window can cause, and the timer's ticks
NextUI ==
  \/ "start_btn" \in PlacedControls /\ start_camera
  \/ "zoom_in_btn" \in PlacedControls /\ zoom_in
  \/ "zoom_out_btn" \in PlacedControls /\ zoom_out
  \/ wheelEvent
  \/ \E f \in ToggleButtons : ButtonOf(f) \in PlacedControls /\ toggle_filter(f)
  \/ "toggle_background_btn" \in PlacedControls /\ toggle_background
  \/ update_frame
  \/ "capture_btn" \in PlacedControls /\ capture_image
  \/ mousePressEvent
  \/ mouseMoveEvent
  \/ mouseReleaseEvent

SpecUI == Init /\ [][NextUI]_vars

(* ---------------- helpers for the properties ---------------- *)
CompositorOf(f) ==
  CASE f = "Blush" -> "add_blush"
    [] f = "Sunglasses" -> "overlay_sunglasses"
    [] f = "RabbitEars" -> "overlay_rabbit_ears"
    [] f = "Background" -> "apply_background_change"

\* number of times a call occurs in the record of calls
Count(calls, c) == Cardinality({k \in 1..Len(calls) : calls[k] = c})

TickOk == trace.ret = "ok"
AnyFlag == \E f \in Filters : filter_states[f]
DetectorRan == TickOk /\ trace.process_calls = 1
NumFaces == Len(trace.faces)
\* the frame handed to apply_face_filter in the last tick
TickInput == flip(trace.cam)

(* ---------------- C1 ---------------- *)
\* C1: after a tick whose read succeeded, for every detected face and every
\* filter, the filter's compositor function was called exactly once for that
\* face when the flag is active and not at all when it is inactive; no call
\* refers to anything but a detected face.
C1_OncePerActiveFilterPerFace ==
  TickOk =>
    /\ \A i \in 1..NumFaces : \A f \in Filters :
         Count(trace.calls, <<CompositorOf(f), i>>) = IF filter_states[f] THEN 1 ELSE 0
    /\ \A k \in 1..Len(trace.calls) : trace.calls[k][2] \in 1..NumFaces

C1_Witness ==
  /\ TickOk /\ NumFaces = 2
  /\ filter_states["Blush"] /\ filter_states["Background"] /\ ~filter_states["Sunglasses"]
  /\ Count(trace.calls, <<"add_blush", 2>>) = 1
  /\ Count(trace.calls, <<"overlay_sunglasses", 2>>) = 0

(* ---------------- C2 ---------------- *)
\* C2: in one tick the detector runs at most once; it runs exactly once when
\* the read succeeded and some flag is true, and not at all when every flag is
\* false, and then the displayed picture is the mirrored camera frame (in
\* display channel order) with no compositor call.
C2_DetectorAtMostOnce ==
  /\ trace.process_calls <= 1
  /\ TickOk /\ AnyFlag => trace.process_calls = 1
  /\ TickOk /\ ~AnyFlag =>
       /\ trace.process_calls = 0
       /\ trace.calls = <<>>
       /\ scene = cvtColor(flip(trace.cam))

C2_Witness ==
  /\ TickOk /\ ~AnyFlag /\ trace.process_calls = 0
  /\ scene = cvtColor(flip(trace.cam)) /\ scene # cvtColor(trace.cam)

(* ---------------- C3 ---------------- *)
\* C3: when the detector ran and returned no face, no compositor function was
\* called and the frame that comes back equals the frame that went in, pixel
\* for pixel, whatever the flags.
C3_NoFacesIdentity ==
  DetectorRan /\ trace.faces = <<>> =>
    /\ trace.calls = <<>>
    /\ \A p \in Pixels : current_frame[p] = TickInput[p]

C3_Witness ==
  /\ DetectorRan /\ trace.faces = <<>>
  /\ \A f \in Filters : filter_states[f]
  /\ current_frame = TickInput

(* ---------------- C4 ---------------- *)
\* the pixels an overlay of filter f writes for a face, given the tick's inputs
Covers(f, lm, readable) ==
  CASE f = "Blush" -> BlushRegion(lm)
    [] f = "Sunglasses" -> SunglassesRegion(lm)
    [] f = "RabbitEars" -> RabbitEarsRegion(lm)
    [] f = "Background" -> IF readable THEN Pixels \ Mask(lm) ELSE {}

FilterOrder == <<"Blush", "Sunglasses", "RabbitEars", "Background">>
OrderOf(f) == CHOOSE k \in 1..4 : FilterOrder[k] = f

\* the colour an opaque asset overlay puts on pixel p for a face
AssetPixel(f, lm, p) ==
  IF f = "Sunglasses"
  THEN ResizedAsset(SunglassesImage, SunglassesWidth(lm), p[2] - SunglassesLeft(lm)).color
  ELSE ResizedAsset(RabbitEarsImage, FaceWidth(lm), p[2] - lm.cheekL[2]).color

\* some active overlay that comes after (f, j) in face-then-filter order writes p
WrittenLater(p, f, j) ==
  \E j2 \in j..NumFaces : \E f2 \in Filters :
    /\ filter_states[f2]
    /\ j2 > j \/ OrderOf(f2) > OrderOf(f)
    /\ p \in Covers(f2, trace.faces[j2], trace.readable)

\* C4: faces are processed in the order the detector returned them, all
\* overlays of one face before any overlay of the next; where the sunglasses
\* (or the ears) of two faces cover the same pixel and nothing is drawn over it
\* afterwards, the pixel shows the asset as placed for the later face.
C4_DetectorOrderLaterFaceWins ==
  TickOk =>
    /\ \A k \in 1..Len(trace.calls) : \A l \in 1..Len(trace.calls) :
         k < l => trace.calls[k][2] <= trace.calls[l][2]
    /\ \A f \in {"Sunglasses", "RabbitEars"} : \A i \in 1..NumFaces : \A j \in 1..NumFaces :
         filter_states[f] /\ i < j =>
           \A p \in Covers(f, trace.faces[i], trace.readable)
                     \cap Covers(f, trace.faces[j], trace.readable) :
             ~WrittenLater(p, f, j) => current_frame[p] = AssetPixel(f, trace.faces[j], p)

C4_Witness ==
  /\ TickOk /\ NumFaces = 2 /\ filter_states["Sunglasses"] /\ filter_states["Blush"]
  /\ \E p \in Pixels :
       /\ p \in SunglassesRegion(trace.faces[1]) /\ p \in SunglassesRegion(trace.faces[2])
       /\ ~WrittenLater(p, "Sunglasses", 2)
       /\ AssetPixel("Sunglasses", trace.faces[1], p) # AssetPixel("Sunglasses", trace.faces[2], p)
       /\ current_frame[p] = AssetPixel("Sunglasses", trace.faces[2], p)

(* ---------------- C5 ---------------- *)
AllMasks == UNION {Mask(trace.faces[i]) : i \in 1..NumFaces}
OnlyBackground == \A f \in Filters : filter_states[f] <=> f = "Background"

\* C5: after a tick with only Background active, one or more faces and a
\* readable background file, every pixel inside the foreground mask of any
\* detected face equals the input frame and every other pixel equals the
\* resized background picture.
C5_BackgroundKeepsEveryForeground ==
  TickOk /\ OnlyBackground /\ NumFaces >= 1 /\ trace.readable /\ current_background # None =>
    \A p \in Pixels :
      current_frame[p] = IF p \in AllMasks THEN TickInput[p]
                         ELSE ResizedBackground(BackgroundFile(current_background))[p]

(* ---------------- C6 ---------------- *)
\* C6: after a tick with one detected face, every pixel that an active Blush,
\* Sunglasses or RabbitEars overlay wrote for that face still shows what that
\* overlay wrote, whatever was applied after it (Background included).
C6_LaterOverlayKeepsEarlier ==
  TickOk /\ NumFaces = 1 =>
    LET lm == trace.faces[1]
    IN /\ filter_states["Blush"] =>
            \A p \in BlushRegion(lm) : current_frame[p] = add_blush(TickInput, lm)[p]
       /\ filter_states["Sunglasses"] =>
            \A p \in SunglassesRegion(lm) : current_frame[p] = overlay_sunglasses(TickInput, lm)[p]
       /\ filter_states["RabbitEars"] =>
            \A p \in RabbitEarsRegion(lm) : current_frame[p] = overlay_rabbit_ears(TickInput, lm)[p]

C8_FailedTickTouchesNothing ==
  [][trace'.ret = "failed" =>
       /\ trace'.process_calls = 0
       /\ trace'.calls = <<>>
       /\ trace'.imreads = 0
       /\ scene' = NoImage
       /\ filter_states' = filter_states
       /\ current_background' = current_background
       /\ current_frame' = current_frame]_vars

C8_Witness ==
  /\ trace.ret = "failed" /\ scene = NoImage /\ current_frame # NoImage
  /\ filter_states["Background"] /\ current_background = "space.jpg"

(* ---------------- C9 ---------------- *)
\* C9: the four flags and current_background change only in a step in which a
\* filter button's checked state flips, that is in toggle_filter or
\* toggle_background; every other handler leaves them as they are.
C9_OnlyTogglesChangeFilterState ==
  [][(filter_states' # filter_states \/ current_background' # current_background)
       => checked' # checked]_vars

C9_Witness ==
  /\ TickOk /\ filter_states["Sunglasses"] /\ current_background = "space.jpg"
  /\ zoom_factor # <<0, 0>> /\ drag_start # None

(* ---------------- C10 ---------------- *)
\* C10: the background picture file is read at most once: no handler reads it
\* more than once, and no two handlers in a row both read it.
C10_BackgroundReadAtMostOnce ==
  [][/\ trace'.imreads <= 1
     /\ ~(trace.imreads >= 1 /\ trace'.imreads >= 1)]_vars

(* ---------------- C14 ---------------- *)
\* C14: the Background flag is true exactly when a background is selected, the
\* selection is None or background_images[1], and background_images[2] is
\* never selected.
C14_BackgroundFlagMatchesSelection ==
  /\ filter_states["Background"] <=> current_background # None
  /\ current_background \in {None, background_images[1]}
  /\ current_background # background_images[2]

C14_Witness ==
  /\ filter_states["Background"] /\ current_background = background_images[1]
  /\ checked["Blush"] /\ ~checked["Sunglasses"]
  /\ TickOk /\ NumFaces = 1
  /\ Count(trace.calls, <<"apply_background_change", 1>>) = 1

(* ---------------- C15 ---------------- *)
FlagsFollowButtons == \A f \in ToggleButtons : filter_states[f] = checked[f]

\* C15: each of the Blush, Sunglasses and RabbitEars flags equals the checked
\* state of its button; a click on one of these buttons negates that flag and
\* leaves the other three flags and current_background as they were.
C15_FlagsFollowButtons ==
  /\ FlagsFollowButtons
  /\ [][/\ FlagsFollowButtons'
        /\ \A f \in ToggleButtons :
             checked'[f] # checked[f] =>
               /\ filter_states'[f] = ~filter_states[f]
               /\ \A g \in Filters \ {f} : filter_states'[g] = filter_states[g]
               /\ current_background' = current_background]_vars

C15_Witness ==
  /\ checked["Blush"] /\ filter_states["Blush"]
  /\ ~checked["Sunglasses"] /\ ~filter_states["Sunglasses"]
  /\ TickOk /\ Count(trace.calls, <<"overlay_sunglasses", 1>>) = 0
  /\ Count(trace.calls, <<"add_blush", 1>>) = 1
  /\ NumFaces >= 1

(* ---------------- C16 ---------------- *)
\* C16: current_frame is absent at the start and is set only by a tick whose
\* read succeeded, to the frame after the overlays (the frame whose channel
\* swap is displayed); a failed tick leaves it as it was; capture_image writes
\* exactly the stored frame and writes nothing while there is none.
C16_CurrentFrameIsLastGoodTick ==
  /\ current_frame = NoImage
  /\ [][/\ current_frame' # current_frame => trace'.ret = "ok"
        /\ trace'.ret = "ok" => current_frame' # NoImage /\ scene' = cvtColor(current_frame')
        /\ trace'.ret = "failed" => current_frame' = current_frame
        /\ trace'.written # NoImage =>
             current_frame # NoImage /\ trace'.written = current_frame]_vars

C16_Witness ==
  /\ trace.written # NoImage /\ trace.written = current_frame
  /\ scene = NoImage
  /\ \E p \in Pixels : current_frame[p] = SunglassesImage[0].color

(* ---------------- C17 ---------------- *)
\* C17: the timer is stopped at the start; a tick happens only while the timer
\* is running; starting or stopping the timer leaves the flags and the
\* selected background as they were, and a tick runs the detector exactly when
\* one of the flags it finds is set.
C17_TicksOnlyWhileStarted ==
  /\ ~timer_active
  /\ [][/\ trace'.ret # "none" => timer_active /\ timer_active'
        /\ timer_active' # timer_active =>
             filter_states' = filter_states /\ current_background' = current_background
        /\ trace'.ret = "ok" =>
             (trace'.process_calls = 1 <=> \E f \in Filters : filter_states[f])]_vars

C17_Witness ==
  /\ ~timer_active /\ trace = NoTick
  /\ current_frame # NoImage /\ scene = cvtColor(current_frame)
  /\ \A p \in Pixels : current_frame[p] # RabbitEarsImage[0].color
  /\ filter_states["RabbitEars"]

(* ---------------- C18 ---------------- *)
\* C18: whenever the timer is running, some button that is placed in the
\* window is connected to stop_camera.
C18_StopControlIsPlaced ==
  timer_active => \E c \in PlacedControls : ConnectedHandler[c] = "stop_camera"

(* ---------------- C12 ---------------- *)
\* C12: for source and destination channel values in 0..255 and any alpha
\* weight, the blended channel lies in 0..255, and so does every value that a
\* sequence of overlay applications produces from it.
C12_BlendStaysInRange ==
  probe.fn = "blend" =>
    /\ probe.dst \in 0..255
    /\ probe.done => probe.out \in 0..255

C12_Witness ==
  /\ probe.fn = "blend" /\ probe.done
  /\ probe.src = 255 /\ probe.alpha = 254 /\ probe.dst \notin ChannelSamples
  /\ probe.out > 250

(* ---------------- C13 ---------------- *)
\* C13: the sunglasses are centred on the midpoint of the two eye corners
\* (to the pixel), their width is the distance between the corners (to the
\* pixel) times the fixed multiplier, their rotation is the direction of the
\* line from one corner to the other, and the placed asset's centroid is
\* within one pixel of the midpoint; corners (100,100) and (140,100) give
\* rotation 0, centre (120,100) and width 40 times the multiplier.
C13_SunglassesPlacement ==
  probe.fn = "sunglasses" /\ probe.done =>
    LET r1 == probe.lm.eyeL[1]
        c1 == probe.lm.eyeL[2]
        r2 == probe.lm.eyeR[1]
        c2 == probe.lm.eyeR[2]
        o == probe.out
        d == o.width \div SunglassesMultiplier
    IN /\ 2 * o.center[1] <= r1 + r2 /\ r1 + r2 <= 2 * o.center[1] + 1
       /\ 2 * o.center[2] <= c1 + c2 /\ c1 + c2 <= 2 * o.center[2] + 1
       /\ o.width = d * SunglassesMultiplier
       /\ d * d <= (r2 - r1) * (r2 - r1) + (c2 - c1) * (c2 - c1)
       /\ (d + 1) * (d + 1) > (r2 - r1) * (r2 - r1) + (c2 - c1) * (c2 - c1)
       /\ o.angle[1] * (c2 - c1) = o.angle[2] * (r2 - r1)
       /\ o.angle[1] * (r2 - r1) + o.angle[2] * (c2 - c1) > 0
       /\ 2 * o.left + o.width - 1 - (c1 + c2) \in -2..2
       /\ (probe.lm.eyeL = <<100, 100>> /\ probe.lm.eyeR = <<100, 140>>) =>
            /\ o.angle = <<0, 1>>
            /\ o.center = <<100, 120>>
            /\ o.width = 40 * SunglassesMultiplier

C13_Witness ==
  /\ probe.fn = "sunglasses" /\ probe.done
  /\ probe.lm.eyeL = <<100, 100>> /\ probe.lm.eyeR = <<100, 140>>
  /\ probe.out.center = <<100, 120>> /\ probe.out.angle = <<0, 1>>
  /\ probe.out.width = 40 * SunglassesMultiplier

(* ---------------- C11 ---------------- *)
\* the compositor functions called for face i in a record of calls
OverlaysOf(calls, i) == {calls[k][1] : k \in {n \in 1..Len(calls) : calls[n][2] = i}}

\* C11: while a tick is running no toggle changes the filter state, so the
\* flags at every per-face dispatch are the flags the gate read and every
\* face of a tick gets the same set of overlays; a tick is entered only when
\* no handler is running, so two ticks never overlap.
C11_TicksAndTogglesDoNotInterleave ==
  [][/\ running.pc # "idle" =>
          filter_states' = filter_states /\ current_background' = current_background
     /\ running'.pc = "faces" =>
          /\ filter_states' = running'.gate_flags
          /\ current_background' = running'.gate_background
     /\ running'.pc = "gate" => running.pc = "idle"
     /\ trace'.ret = "ok" =>
          \A i \in 1..Len(trace'.faces) : \A j \in 1..Len(trace'.faces) :
            OverlaysOf(trace'.calls, i) = OverlaysOf(trace'.calls, j)]_vars

C11_Witness ==
  /\ running.pc = "faces" /\ Len(running.faces) = 2 /\ running.i = 2
  /\ filter_states["Blush"] /\ filter_states["Background"]
  /\ OverlaysOf(running.calls, 1) = {"add_blush", "apply_background_change"}
  /\ current_frame # NoImage
====
